---- MODULE Spec2Model ----
(***************************************************************************)
(* Model of the yew component `Model` of src/src/lib.rs: the search page   *)
(* over the remote template catalogue.  The state is the component's       *)
(* fields (query, console, fetch_service, ft, table); the steps are the    *)
(* three callbacks that produce an Option<Msg> (an input's onchange, the   *)
(* button's onclick, the fetch response callback), each followed by the    *)
(* component's update on that message.                                     *)
(***************************************************************************)
EXTENDS Integers, Sequences, FiniteSets, TLC

(* ---------------------------- bounds ---------------------------------- *)

\* number of searches (fetches issued) explored in one run
MaxSearches == 2

\* longest objects array a response body carries
MaxRows == 2

(* ------------------------ Option<T> values ---------------------------- *)

None == [some |-> FALSE]

Some(x) == [some |-> TRUE, val |-> x]

(* --------------------------- data types ------------------------------- *)

\* the strings a user can type into a filter input
Strings == {"", "glass"}

\* struct OrbitTemplate: two catalogue records with pairwise distinct fields
rowA == [id |-> "1", matter |-> "mA", brand |-> "bA", language |-> "lA",
         medium |-> "dA", subject |-> "S", body |-> "yA",
         created_at |-> "cA", changed_at |-> "hA", mime_type |-> "tA"]

rowB == [id |-> "2", matter |-> "mB", brand |-> "bB", language |-> "lB",
         medium |-> "dB", subject |-> "T", body |-> "yB",
         created_at |-> "cB", changed_at |-> "hB", mime_type |-> "tB"]

OrbitTemplate == {rowA, rowB}

\* the objects arrays of the modelled bodies, a sample of Vec<OrbitTemplate>:
\* up to MaxRows records in any order, each record at most once
ObjectLists ==
    {s \in UNION {[1..n -> OrbitTemplate] : n \in 0..MaxRows} :
        \A i, j \in 1..Len(s) : i # j => s[i] # s[j]}

\* the i32 triples <<page, per_page, num_results>> of the modelled bodies:
\* the decoder takes any three i32, whatever the objects array holds
PageCounts == {<<1, 10, 1>>, <<3, 25, 57>>}

\* struct QueryResult
QueryResult ==
    {[objects |-> o, page |-> c[1], per_page |-> c[2], num_results |-> c[3]] :
        o \in ObjectLists, c \in PageCounts}

\* Result<QueryResult, Error> as decoded from the body by Json
Ok(body) == [ok |-> TRUE, body |-> body]

Err == [ok |-> FALSE]

\* Response<Json<Result<QueryResult, Error>>>: the status class and the body
Response ==
    {[is_success |-> st, result |-> r] :
        st \in BOOLEAN, r \in {Ok(b) : b \in QueryResult} \cup {Err}}

\* struct Query, Query::default()
Query_default ==
    [matter |-> None, language |-> None, brand |-> None, medium |-> None,
     mime_type |-> None]

\* enum FilterUpdate: the variant names as written in the source
FilterVariants == {"Matter", "Langauge", "Brand", "Medium", "MimeType"}

FilterUpdate(variant, s) == [variant |-> variant, s |-> s]

\* enum Msg
QueryFilterUpdate(filter) == [type |-> "QueryFilterUpdate", filter |-> filter]

SearchAction == [type |-> "SearchAction"]

SearchResults(result) == [type |-> "SearchResults", result |-> result]

\* impl From<FilterUpdate> for Msg
Msg_from(filter) == QueryFilterUpdate(filter)

\* yew ChangeData: Value(String), or a non-value change (Select, Files)
ChangeData ==
    {[kind |-> "Value", val |-> s] : s \in Strings}
        \cup {[kind |-> "Select"], [kind |-> "Files"]}

(* ------------------------- pure functions ----------------------------- *)

\* variant: the empty string is kept as a value
none_if_empty_KeepsEmpty(s) == Some(s)

\* fn none_if_empty(s: String) -> Option<String>
none_if_empty(s) == IF s = "" THEN None ELSE Some(s)

\* variant: the Brand arm writes the medium field
Query_update_BrandToMedium(self, filter) ==
    CASE filter.variant = "Matter"   -> [self EXCEPT !.matter = filter.s]
      [] filter.variant = "Langauge" -> [self EXCEPT !.language = filter.s]
      [] filter.variant = "Brand"    -> [self EXCEPT !.medium = filter.s]
      [] filter.variant = "Medium"   -> [self EXCEPT !.medium = filter.s]
      [] filter.variant = "MimeType" -> [self EXCEPT !.mime_type = filter.s]

\* Query::update(&mut self, filter)
Query_update(self, filter) ==
    CASE filter.variant = "Matter"   -> [self EXCEPT !.matter = filter.s]
      [] filter.variant = "Langauge" -> [self EXCEPT !.language = filter.s]
      [] filter.variant = "Brand"    -> [self EXCEPT !.brand = filter.s]
      [] filter.variant = "Medium"   -> [self EXCEPT !.medium = filter.s]
      [] filter.variant = "MimeType" -> [self EXCEPT !.mime_type = filter.s]

\* the filter_factory closures handed to query_field in view()
filter_factory(variant, val) == Some(FilterUpdate(variant, val))

\* Option::map(Into::into) on the factory's result
map_into(o) == IF o.some THEN Some(Msg_from(o.val)) ELSE None

\* the onchange closure of query_field
onchange(variant, value) ==
    IF value.kind = "Value"
    THEN map_into(filter_factory(variant, none_if_empty(value.val)))
    ELSE None

\* the onclick closure of the Search button
onclick == Some(SearchAction)

\* variant: the status check is missing
callback_IgnoresStatus(response) ==
    IF response.result.ok
    THEN Some(SearchResults(response.result.body))
    ELSE None

\* variant: an undecodable body counts as an empty page
callback_ErrAsEmpty(response) ==
    IF ~response.is_success
    THEN None
    ELSE IF response.result.ok
         THEN Some(SearchResults(response.result.body))
         ELSE Some(SearchResults([objects |-> <<>>, page |-> 1, per_page |-> 10,
                                  num_results |-> 0]))

\* the response callback built in Model::search
callback(response) ==
    IF ~response.is_success
    THEN None
    ELSE IF response.result.ok
         THEN Some(SearchResults(response.result.body))
         ELSE None

\* the request built in Model::search
Request ==
    [method |-> "GET", uri |-> "http://foo.bar:4848/templates", body |-> "Nothing"]

\* format!("{:?}", msg)
DebugMsg(msg) == [dump |-> "msg", of |-> msg]

\* format!("got result: {:?}", result)
DebugResult(result) == [dump |-> "got result", of |-> result]

\* format!("{:?}", self.query)
DebugQuery(query) == [dump |-> "query", of |-> query]

\* variant: the console drops the line
log_Drops(self, line) == self

\* ConsoleService::log on the component's console
log(self, line) == [self EXCEPT !.console = Append(@, line)]

\* variant: the matter filter is sent as a query parameter
search_SendsMatter(self) ==
    LET req == IF self.query.matter.some
               THEN [Request EXCEPT !.uri = "http://foo.bar:4848/templates?matter"]
               ELSE Request
        fs == Append(self.fetch_service, [request |-> req, delivered |-> 0, active |-> TRUE])
    IN [self |-> [self EXCEPT !.fetch_service = fs], task |-> Len(fs)]

\* Model::search(&mut self) -> FetchTask: the fetch service takes the request
\* and the callback; the task returned names the fetch and is active until
\* the callback has been called or the task has been cancelled
search(self) ==
    LET fs == Append(self.fetch_service,
                     [request |-> Request, delivered |-> 0, active |-> TRUE])
    IN [self |-> [self EXCEPT !.fetch_service = fs], task |-> Len(fs)]

\* the drop of the Option<FetchTask> that the assignment to self.ft
\* replaces: dropping a FetchTask that is still active cancels it, which
\* leaves the request with the server but marks the handle inactive, so
\* that its callback is never called
drop(self, old) ==
    IF old.some /\ self.fetch_service[old.val].active
    THEN [self EXCEPT !.fetch_service[old.val].active = FALSE]
    ELSE self

\* the three arms of the match in Model::update

\* variant: the filter arm also starts a search
update_QueryFilterUpdate_Searches(self, filter) ==
    LET r == search([self EXCEPT !.query = Query_update(self.query, filter)])
    IN [drop(r.self, self.ft) EXCEPT !.ft = Some(r.task)]

update_QueryFilterUpdate(self, filter) ==
    [self EXCEPT !.query = Query_update(self.query, filter)]

\* variant: the task returned by search is not retained, and is dropped at
\* the end of the statement
update_SearchAction_DropsTask(self) ==
    LET r == search(self) IN drop(r.self, Some(r.task))

\* variant: the search consumes the query
update_SearchAction_TakesQuery(self) ==
    LET r == search(self)
    IN [drop(r.self, self.ft) EXCEPT !.ft = Some(r.task),
                                     !.query = Query_default]

\* variant: a search already in flight is not doubled
update_SearchAction_OncePending(self) ==
    IF self.ft.some
    THEN self
    ELSE LET r == search(self) IN [r.self EXCEPT !.ft = Some(r.task)]

\* variant: the replaced task is kept alive instead of dropped
update_SearchAction_KeepsReplaced(self) ==
    LET r == search(self) IN [r.self EXCEPT !.ft = Some(r.task)]

\* self.ft = Some(self.search()): search runs first, then the assignment
\* drops the value self.ft held
update_SearchAction(self) ==
    LET r == search(self)
    IN [drop(r.self, self.ft) EXCEPT !.ft = Some(r.task)]

\* variant: the page is appended to the rows on display
update_SearchResults_Appends(self, result) ==
    [log(self, DebugResult(result)) EXCEPT !.table = @ \o result.objects]

\* variant: the handle is released when the result arrives
update_SearchResults_ClearsFt(self, result) ==
    [log(self, DebugResult(result)) EXCEPT !.table = result.objects,
                                           !.ft = None]

\* variant: a page only fills an empty table
update_SearchResults_OnlyIfEmpty(self, result) ==
    [log(self, DebugResult(result)) EXCEPT
        !.table = IF @ = <<>> THEN result.objects ELSE @]

update_SearchResults(self, result) ==
    [log(self, DebugResult(result)) EXCEPT !.table = result.objects]

\* variant: the absent message releases the handle
update_NoneReleasesFt(self, msg) ==
    IF msg.some
    THEN LET m  == msg.val
             s0 == log(self, DebugMsg(m))
             s1 == CASE m.type = "QueryFilterUpdate" ->
                            update_QueryFilterUpdate(s0, m.filter)
                     [] m.type = "SearchAction" -> update_SearchAction(s0)
                     [] m.type = "SearchResults" ->
                            update_SearchResults(s0, m.result)
         IN [self |-> log(s1, DebugQuery(s1.query)), ret |-> TRUE]
    ELSE [self |-> [self EXCEPT !.ft = None], ret |-> FALSE]

\* variant: a re-render is asked for only when the message changed the state
update_RendersIfChanged(self, msg) ==
    IF msg.some
    THEN LET m  == msg.val
             s0 == log(self, DebugMsg(m))
             s1 == CASE m.type = "QueryFilterUpdate" ->
                            update_QueryFilterUpdate(s0, m.filter)
                     [] m.type = "SearchAction" -> update_SearchAction(s0)
                     [] m.type = "SearchResults" ->
                            update_SearchResults(s0, m.result)
         IN [self |-> log(s1, DebugQuery(s1.query)),
             ret |-> (s1.query # self.query \/ s1.table # self.table
                        \/ s1.ft # self.ft)]
    ELSE [self |-> self, ret |-> FALSE]

\* Model::update(&mut self, msg: Option<Msg>) -> ShouldRender
update(self, msg) ==
    IF msg.some
    THEN LET m  == msg.val
             s0 == log(self, DebugMsg(m))
             s1 == CASE m.type = "QueryFilterUpdate" ->
                            update_QueryFilterUpdate(s0, m.filter)
                     [] m.type = "SearchAction" -> update_SearchAction(s0)
                     [] m.type = "SearchResults" ->
                            update_SearchResults(s0, m.result)
         IN [self |-> log(s1, DebugQuery(s1.query)), ret |-> TRUE]
    ELSE [self |-> self, ret |-> FALSE]

(* ------------------------------- view --------------------------------- *)

\* const TABLE_FIELDS
TABLE_FIELDS ==
    <<"Subject", "Brand", "Language", "Medium", "Matter", "MIME Type",
      "Created At", "Changed At", "Body", "Actions">>

\* variant: the input is rendered with an (empty) value attribute
query_field_WithValue(name) ==
    [element |-> "input", type |-> "text", name |-> name, value |-> ""]

\* fn query_field(name, filter_factory): the input element it builds
query_field(name) == [element |-> "input", type |-> "text", name |-> name]

\* fn template_row(template): the text of the cells of the row, in order
template_row(template) ==
    <<template.subject, template.brand, template.language, template.medium,
      template.matter, template.mime_type, template.created_at,
      template.changed_at, template.body>>

\* Model::view(&self)
view(self) ==
    [h1 |-> "Search Templates",
     inputs |-> <<query_field("Matter"), query_field("Language"),
                  query_field("Brand"), query_field("Medium"),
                  query_field("MimeType")>>,
     button |-> "Search",
     thead |-> TABLE_FIELDS,
     tbody |-> [i \in 1..Len(self.table) |-> template_row(self.table[i])]]

(* ------------------------------ state --------------------------------- *)

VARIABLES
    query,          \* Model.query
    console,        \* the lines the latest update call handed to Model.console
    fetch_service,  \* Model.fetch_service: the fetches issued, in order
    ft,             \* Model.ft: Option<FetchTask>
    table,          \* Model.table
    should_render,  \* what the latest update call returned
    ev,             \* the latest callback run and the message it produced
    last_ok         \* history: body of the latest success response delivered

vars == <<query, console, fetch_service, ft, table, should_render, ev, last_ok>>

\* the component as update sees it at the start of a call
Self ==
    [query |-> query, console |-> <<>>, fetch_service |-> fetch_service,
     ft |-> ft, table |-> table]

\* Model::create
create ==
    [query |-> Query_default, console |-> <<>>, fetch_service |-> <<>>,
     ft |-> None, table |-> <<>>]

Init ==
    /\ query = create.query
    /\ console = create.console
    /\ fetch_service = create.fetch_service
    /\ ft = create.ft
    /\ table = create.table
    /\ should_render = FALSE
    /\ ev = [kind |-> "create"]
    /\ last_ok = None

\* the component after update(msg), as the next state
Deliver(self, msg) ==
    LET r == update(self, msg)
    IN /\ query' = r.self.query
       /\ console' = r.self.console
       /\ fetch_service' = r.self.fetch_service
       /\ ft' = r.self.ft
       /\ table' = r.self.table
       /\ should_render' = r.ret

\* the user changes the input of one filter field
Change ==
    \E variant \in FilterVariants, value \in ChangeData :
        LET msg == onchange(variant, value)
        IN /\ Deliver(Self, msg)
           /\ ev' = [kind |-> "onchange", variant |-> variant,
                     value |-> value, msg |-> msg]
           /\ UNCHANGED last_ok

\* the user clicks Search
Click ==
    /\ Len(fetch_service) < MaxSearches
    /\ Deliver(Self, onclick)
    /\ ev' = [kind |-> "onclick", msg |-> onclick]
    /\ UNCHANGED last_ok

\* the fetch service hands the response of fetch id to its callback; a
\* transport failure reaches the callback as a non-success response without
\* a decodable body.  The service calls the callback of an active task only,
\* and the task is inactive from then on.  When the service answers is its
\* affair: Spec forces no response, FairSpec answers every active task.
Respond ==
    \E id \in 1..Len(fetch_service), response \in Response :
        /\ fetch_service[id].active
        /\ LET msg == callback(response)
               self == [Self EXCEPT !.fetch_service[id].delivered = @ + 1,
                                    !.fetch_service[id].active = FALSE]
           IN /\ Deliver(self, msg)
              /\ ev' = [kind |-> "response", id |-> id, response |-> response,
                        msg |-> msg]
              /\ last_ok' = IF response.is_success /\ response.result.ok
                            THEN Some(response.result.body)
                            ELSE last_ok

Next == Change \/ Click \/ Respond

Spec == Init /\ [][Next]_vars

\* the transport resolves every request whose task is active
FairSpec == Spec /\ WF_vars(Respond)

(* ----------------------- vocabulary of the claims --------------------- *)

\* the in-flight flag: the retained fetch handle is set
pending == ft.some

\* the latest step processed a filter edit
FilterEdited == ev.kind = "onchange" /\ ev.msg.some

\* the latest step processed a search trigger
SearchTriggered == ev.kind = "onclick"

\* the latest step processed the response of a fetch
Resolved == ev.kind = "response"

\* a response with a success status and a body that parses
IsSuccess(response) == response.is_success /\ response.result.ok

\* the latest step processed a successful search result
SearchSucceeded == Resolved /\ IsSuccess(ev.response)

\* the latest step processed a failed search
SearchFailed == Resolved /\ ~IsSuccess(ev.response)

\* the failure kinds of the specification a response can stand for
FailureKinds(response) ==
    IF response.is_success
    THEN IF response.result.ok THEN {} ELSE {"Decode"}
    ELSE IF response.result.ok THEN {"ServerStatus"}
         ELSE {"ServerStatus", "Network"}

\* the objects carried by the response of the latest step
PageObjects == ev.response.result.body.objects

\* every fetch issued so far has had its response processed
AllResolved == \A i \in 1..Len(fetch_service) : fetch_service[i].delivered = 1

\* fetch i was cancelled: its task went inactive with no response processed
Cancelled(i) ==
    ~fetch_service[i].active /\ fetch_service[i].delivered = 0

(* ------------------------------ claims -------------------------------- *)

\* C1: rows (table) equals the objects of the most recently processed
\* successful search result, and is empty while none has been processed;
\* last_ok changes on successful responses only, so no filter edit, search
\* trigger or failure changes rows.
C1_RowsAreLastSuccess ==
    table = IF last_ok.some THEN last_ok.val.objects ELSE <<>>

\* C1 witness: a filter edit processed after a two-row page was received
\* and a second search was triggered leaves that page on display.
C1_Witness ==
    /\ FilterEdited
    /\ Len(fetch_service) = 2
    /\ last_ok.some
    /\ table = <<rowB, rowA>>

\* C2 as stated: a successful result processed while pending yields
\* pending = false, rows = page.objects and unchanged filters.
C2_Original ==
    [][SearchSucceeded' /\ pending
        => ~pending' /\ table' = PageObjects' /\ query' = query]_vars

\* C2 amended: a successful result processed while pending yields rows equal
\* to page.objects as the same sequence and leaves the filters unchanged;
\* the handle ft is left as it was, so pending stays true.
C2_SuccessSetsRows ==
    [][SearchSucceeded' /\ pending
        => /\ table' = PageObjects'
           /\ Len(table') = Len(PageObjects')
           /\ query' = query
           /\ ft' = ft]_vars

\* C2 witness: a page of two different records, announcing 57 results, was
\* processed while pending with a filter set: the rows are the two records.
C2_Witness ==
    /\ SearchSucceeded
    /\ pending
    /\ PageObjects = <<rowA, rowB>>
    /\ ev.response.result.body.num_results = 57
    /\ table = <<rowA, rowB>>
    /\ query.matter = Some("glass")

\* C3 as stated: a failed search of any kind leaves pending = false, rows
\* and filters as they were.
C3_Original ==
    [][SearchFailed' => ~pending' /\ table' = table /\ query' = query]_vars

\* C3 amended: a failed search of any kind leaves rows, filters and the
\* rendered view as they were and asks for no re-render; the handle ft is
\* left as it was, so pending stays true.
C3_FailureChangesNothing ==
    [][SearchFailed'
        => /\ table' = table
           /\ query' = query
           /\ ft' = ft
           /\ pending'
           /\ view(Self)' = view(Self)
           /\ ~should_render']_vars

\* C3 witness: with rows = [rowA], a search was triggered and failed with a
\* non-success status although the body parses.
C3_Witness ==
    /\ SearchFailed
    /\ "ServerStatus" \in FailureKinds(ev.response)
    /\ ev.response.result.ok
    /\ ev.id = 2
    /\ table = <<rowA>>

\* C4 as stated: pending is true only between a search trigger and the
\* processing of that search's result or failure.
C4_Original ==
    pending => fetch_service[ft.val].delivered = 0

\* C4 amended: the handle is unset exactly until the first search trigger;
\* from then on it is set and names the most recently issued fetch, also
\* after that fetch's result or failure has been processed.
C4_HandleNamesLatestFetch ==
    ft = IF Len(fetch_service) = 0 THEN None ELSE Some(Len(fetch_service))

\* C4 witness: the result of the most recent search was processed and the
\* handle is still set.
C4_Witness ==
    /\ SearchSucceeded
    /\ ev.id = Len(fetch_service)
    /\ AllResolved
    /\ pending

\* C5: a search trigger processed with pending = false yields pending = true
\* and leaves filters and rows unchanged.
C5_TriggerSetsPending ==
    [][SearchTriggered' /\ ~pending
        => pending' /\ query' = query /\ table' = table]_vars

\* C5 witness: the first search was triggered with two filters set.
C5_Witness ==
    /\ SearchTriggered
    /\ Len(fetch_service) = 1
    /\ pending
    /\ query.matter = Some("glass")
    /\ query.mime_type = Some("glass")

\* the filter field each update variant targets (Langauge is the source's
\* spelling of the language variant)
FieldOf(variant) ==
    CASE variant = "Matter"   -> "matter"
      [] variant = "Langauge" -> "language"
      [] variant = "Brand"    -> "brand"
      [] variant = "Medium"   -> "medium"
      [] variant = "MimeType" -> "mime_type"

\* the field update carried by the filter edit of the latest step
EditedUpdate == ev.msg.val.filter

\* C6: applying a field update targeting field X with optional value v
\* yields filters whose field X equals v exactly and whose four other
\* fields are as before.
C6_UpdateReplacesOneField ==
    [][FilterEdited'
        => /\ query'[FieldOf(EditedUpdate'.variant)] = EditedUpdate'.s
           /\ \A f \in DOMAIN query :
                 f # FieldOf(EditedUpdate'.variant) => query'[f] = query[f]
           /\ DOMAIN query' = DOMAIN query]_vars

\* C6 witness: brand was set to "glass" while matter stayed "glass" and
\* medium stayed absent.
C6_Witness ==
    /\ FilterEdited
    /\ EditedUpdate = FilterUpdate("Brand", Some("glass"))
    /\ query = [Query_default EXCEPT !.brand = Some("glass"),
                                     !.matter = Some("glass")]

\* C7: a filter edit processed in Idle or in Fetching changes only the
\* filters: rows, the handle and the fetches outstanding are untouched, and
\* the edit is in the filters at once, also while a search is in flight.
C7_EditChangesOnlyFilters ==
    [][FilterEdited'
        => /\ table' = table
           /\ ft' = ft
           /\ fetch_service' = fetch_service
           /\ query'[FieldOf(EditedUpdate'.variant)] = EditedUpdate'.s]_vars

\* C7 witness: a filter was cleared while a search was in flight and rows
\* of an earlier search were on display.
C7_Witness ==
    /\ FilterEdited
    /\ EditedUpdate = FilterUpdate("Langauge", None)
    /\ pending
    /\ fetch_service[ft.val].delivered = 0
    /\ table = <<rowB, rowA>>
    /\ query.medium = Some("glass")

ExpectedEvent(response) ==
    IF IsSuccess(response) THEN "SearchResults" ELSE "SearchFailed"

\* C9 as stated: every response is delivered to update as one event,
\* SearchSucceeded for a success and SearchFailed for each failure kind.
C9_Original ==
    Resolved => ev.msg.some /\ ev.msg.val.type = ExpectedEvent(ev.response)

\* C9 amended: every response handed to the callback yields exactly one
\* message, processed by update once: SearchResults(page) when the status
\* is success and the body parses, and the absent message (None) for a
\* non-success status, an undecodable body or a transport failure alike;
\* no fetch has its response processed twice.
C9_OneMessagePerResponse ==
    /\ \A i \in 1..Len(fetch_service) : fetch_service[i].delivered \in {0, 1}
    /\ Resolved
        => /\ fetch_service[ev.id].delivered = 1
           /\ IsSuccess(ev.response)
                => /\ ev.msg = Some(SearchResults(ev.response.result.body))
                   /\ should_render
                   /\ table = PageObjects
           /\ ~IsSuccess(ev.response)
                => ev.msg = None /\ ~should_render /\ console = <<>>

\* C9 witness: a success status with an undecodable body (Decode) was
\* answered by the absent message.
C9_Witness ==
    /\ Resolved
    /\ FailureKinds(ev.response) = {"Decode"}
    /\ ev.msg = None
    /\ fetch_service[ev.id].delivered = 1

\* C10 as stated, on finite runs: once the transport has resolved every
\* request issued, by success or by failure, the machine is back in Idle.
C10_Original == (Len(fetch_service) > 0 /\ AllResolved) => ~pending

\* C10 amended: once Fetching, the machine stays Fetching: no step, and in
\* particular no processed response, success or failure, of any request,
\* returns it to Idle, however many requests the transport resolves.
C10_NeverBackToIdle == [][pending => pending']_vars

\* C10 witness: every request issued was resolved, the last by a failure,
\* and the machine is still Fetching.
C10_Witness ==
    /\ SearchFailed
    /\ Len(fetch_service) = MaxSearches
    /\ AllResolved
    /\ pending

\* the latest step was a raw input event carrying a string
RawInput == ev.kind = "onchange" /\ ev.value.kind = "Value"

\* C11: no filter field ever holds the empty string; a raw input carrying
\* the empty string for a field reaches the filters as an update with value
\* absent, and a non-empty input reaches them as exactly that string.
C11_NoEmptyStringFilter ==
    /\ \A f \in DOMAIN query : query[f] # Some("")
    /\ RawInput
        => /\ ev.msg.some
           /\ ev.msg.val.type = "QueryFilterUpdate"
           /\ EditedUpdate.variant = ev.variant
           /\ ev.value.val = "" => EditedUpdate.s = None
           /\ ev.value.val # "" => EditedUpdate.s = Some(ev.value.val)
           /\ query[FieldOf(ev.variant)] = EditedUpdate.s

\* C11 witness: the medium input was emptied while brand holds "glass".
C11_Witness ==
    /\ RawInput
    /\ ev.variant = "Medium"
    /\ ev.value.val = ""
    /\ query.medium = None
    /\ query.brand = Some("glass")
    /\ table = <<rowA>>

\* the nine column names of the specification, in its order
CanonicalHeaders ==
    <<"Subject", "Brand", "Language", "Medium", "Matter", "MIME Type",
      "Created At", "Changed At", "Body">>

\* the record field each column of the specification shows
HeaderField ==
    <<"subject", "brand", "language", "medium", "matter", "mime_type",
      "created_at", "changed_at", "body">>

\* C12: the rendered table has exactly Len(rows) body rows, in rows order,
\* and its header sequence is exactly the nine canonical names, with no
\* other column.
C12_Claim ==
    LET v == view(Self)
    IN /\ Len(v.tbody) = Len(table)
       /\ \A i \in 1..Len(table) : v.tbody[i][1] = table[i].subject
       /\ v.thead = CanonicalHeaders

\* the value attribute of a rendered input element, if it has one
ValueAttribute(input) ==
    IF "value" \in DOMAIN input THEN Some(input.value) ELSE None

\* the filter field each rendered input stands for, in rendering order
InputField == <<"matter", "language", "brand", "medium", "mime_type">>

\* C13 as stated: render produces one text input per filter field whose
\* current value is that filter field, or the empty string if it is absent.
C13_Original ==
    LET v == view(Self)
    IN /\ Len(v.inputs) = Len(InputField)
       /\ \A i \in 1..Len(InputField) :
             ValueAttribute(v.inputs[i]) =
                Some(IF query[InputField[i]].some
                     THEN query[InputField[i]].val ELSE "")

\* C13 amended: render produces one text input per filter field, named
\* Matter, Language, Brand, Medium, MimeType in that order, and gives none
\* of them a value: the rendered description is the same whatever the
\* filters hold.
C13_InputsCarryNoValue ==
    LET v == view(Self)
    IN /\ Len(v.inputs) = Len(InputField)
       /\ \A i \in 1..Len(InputField) :
             /\ v.inputs[i].type = "text"
             /\ ValueAttribute(v.inputs[i]) = None
       /\ [i \in 1..Len(v.inputs) |-> v.inputs[i].name]
             = <<"Matter", "Language", "Brand", "Medium", "MimeType">>
       /\ v = view([Self EXCEPT !.query = Query_default])

\* C13 witness: after the edit of matter to "glass" from the default state
\* the matter input is rendered without a value.
C13_Witness ==
    /\ FilterEdited
    /\ EditedUpdate = FilterUpdate("Matter", Some("glass"))
    /\ query = [Query_default EXCEPT !.matter = Some("glass")]
    /\ table = <<>>
    /\ ValueAttribute(view(Self).inputs[1]) = None

\* C17: every rendered row has one cell per header column, and cell i is
\* the text of the record field named by header i.
C17_Claim ==
    LET v == view(Self)
    IN \A r \in 1..Len(table) :
          /\ Len(v.tbody[r]) = Len(v.thead)
          /\ \A i \in 1..Len(HeaderField) :
                /\ v.thead[i] = CanonicalHeaders[i]
                /\ v.tbody[r][i] = table[r][HeaderField[i]]

\* C14 as stated, in its part about effects: the reduction step performs no
\* I/O, neither a transport call nor logging.
C14_Original ==
    [][console' = <<>> /\ Len(fetch_service') = Len(fetch_service)]_vars

\* C14 amended: update is a total function of (state, message) that gives
\* one next state, but it performs I/O inside: it logs for every present
\* message, logs nothing for the absent one, and issues the transport call
\* itself exactly when it processes SearchAction.
C14_UpdateDoesItsOwnIO ==
    [][/\ ev'.msg.some <=> console' # <<>>
       /\ ev'.msg = Some(SearchAction)
            <=> Len(fetch_service') = Len(fetch_service) + 1
       /\ ev'.msg # Some(SearchAction)
            => Len(fetch_service') = Len(fetch_service)]_vars

\* C14 witness: update, processing SearchAction, has logged and has issued
\* the second transport call.
C14_Witness ==
    /\ SearchTriggered
    /\ Len(fetch_service) = 2
    /\ fetch_service[2].delivered = 0
    /\ Len(console) = 2

\* C15: the request issued on a search trigger does not depend on the
\* filters: whatever they hold, it is the same GET of the fixed /templates
\* endpoint with no query parameters and no body.
C15_RequestIgnoresFilters ==
    \A i \in 1..Len(fetch_service) :
        fetch_service[i].request =
            [method |-> "GET", uri |-> "http://foo.bar:4848/templates",
             body |-> "Nothing"]

\* C15 witness: a search was triggered with the matter and brand filters
\* set, after one triggered earlier.
C15_Witness ==
    /\ SearchTriggered
    /\ Len(fetch_service) = 2
    /\ query.matter = Some("glass")
    /\ query.brand = Some("glass")
    /\ fetch_service[2].request.uri = "http://foo.bar:4848/templates"

\* C16: every processed filter edit, search trigger and successful result
\* is dirty: update reports that a re-render is needed, whether or not the
\* event changed the state.
C16_PresentMessagesAreDirty ==
    (FilterEdited \/ SearchTriggered \/ SearchSucceeded) => should_render

\* C16 witness: a filter edit that cleared a field of the default filters
\* (no field set, nothing fetched) was reported dirty.
C16_Witness ==
    /\ FilterEdited
    /\ EditedUpdate.s = None
    /\ query = Query_default
    /\ fetch_service = <<>>
    /\ should_render

\* C18: the logging sink is invoked for every event, a search failure
\* included: first with a dump of the event and, after the mutation, with a
\* dump of the resulting filters.
C18_Original ==
    (FilterEdited \/ SearchTriggered \/ Resolved)
        => /\ Len(console) >= 2
           /\ console[1].dump = "msg"
           /\ console[Len(console)] = DebugQuery(query)

\* C18, the part the code satisfies: the sink is invoked for every filter
\* edit, search trigger and search success: first with a dump of the event,
\* last, after the mutation, with a dump of the resulting filters, and for
\* a success with a dump of the result in between; for a search failure it
\* is not invoked.
C18_LogsPresentMessagesOnly ==
    /\ (FilterEdited \/ SearchTriggered)
        => console = <<DebugMsg(ev.msg.val), DebugQuery(query)>>
    /\ SearchSucceeded
        => console = <<DebugMsg(ev.msg.val),
                       DebugResult(ev.response.result.body),
                       DebugQuery(query)>>
    /\ SearchFailed => console = <<>>

\* C18, a state of that part: the edit that set brand to "glass" was
\* logged, and the dump
\* after it shows the new brand.
C18_LoggedEdit ==
    /\ FilterEdited
    /\ EditedUpdate = FilterUpdate("Brand", Some("glass"))
    /\ Len(console) = 2
    /\ console[1].of = ev.msg.val
    /\ console[2].of.brand = Some("glass")

\* C19: the number of transport calls issued equals the number of search
\* triggers processed: every trigger issues exactly one call, pending or
\* not, and no filter edit, result or failure issues one.
C19_OneCallPerTrigger ==
    [][Len(fetch_service')
         = Len(fetch_service) + (IF SearchTriggered' THEN 1 ELSE 0)]_vars

\* C19 witness: a trigger processed while the first search was in flight
\* issued the second call.
C19_Witness ==
    /\ SearchTriggered
    /\ Len(fetch_service) = 2
    /\ fetch_service[1].delivered = 0
    /\ ft = Some(2)

\* C20: an absent message, from a non-value input change or from a failed
\* response, is a no-op in update: filters, rows and the retained handle
\* are unchanged, nothing is logged and no re-render is asked for.
C20_NoneIsNoOp ==
    [][ev'.msg = None
        => /\ ev'.kind = "onchange" => ev'.value.kind # "Value"
           /\ ev'.kind = "response" => ~IsSuccess(ev'.response)
           /\ query' = query
           /\ table' = table
           /\ ft' = ft
           /\ console' = <<>>
           /\ ~should_render']_vars

\* C20 witness: a file change on an input was ignored while a search was
\* in flight, rows were on display and a filter was set.
C20_Witness ==
    /\ ev.kind = "onchange"
    /\ ev.value.kind = "Files"
    /\ ev.msg = None
    /\ ~should_render
    /\ console = <<>>
    /\ table = <<rowB>>
    /\ query.language = Some("glass")
    /\ ft = Some(2)

====
